---- MODULE Spec2Model ----
(***************************************************************************)
(* A model of src/main.py: the normalizer (preprocess_text), the matcher   *)
(* (count_occurrences_regex, count_allah), the self-check                  *)
(* (verify_bismillah_letters) and the pipeline of main().                  *)
(*                                                                         *)
(* A character is its Unicode code point (a natural number) and a string   *)
(* is a sequence of characters.  The character classes are those of the    *)
(* regular expressions of the source and of CPython's str/re predicates,   *)
(* written out for the ranges the model's alphabets are drawn from: ASCII,  *)
(* Latin-1 and the Arabic block U+0600-U+06FF.                              *)
(***************************************************************************)
EXTENDS Integers, Sequences, FiniteSets, TLC

VARIABLES
    pc,                     \* position in main() / in the function under check
    STRIP_DIACRITICS,       \* configuration flag, main.py line 32
    REMOVE_NON_ARABIC,      \* configuration flag, main.py line 35
    ALLAH_MODE,             \* configuration selector, main.py line 42
    file,                   \* the corpus file: [status, bytes, malformed]
    raw_text,               \* main: raw_text
    prepped_text,           \* main: prepped_text
    reprepped_text,         \* the normalizer applied to its own output
    bismillah_letter_count, \* main: bismillah_letter_count
    ism_count,              \* main: ism_count
    allah_count,            \* main: allah_count (an int or a tuple)
    rahman_count,           \* main: rahman_count
    rahim_count,            \* main: rahim_count
    out,                    \* standard output, one entry per printed line
    exit_code,              \* the process's exit code, None while running
    error                   \* the uncaught exception, "" when there is none

vars == <<pc, STRIP_DIACRITICS, REMOVE_NON_ARABIC, ALLAH_MODE, file, raw_text,
          prepped_text, reprepped_text, bismillah_letter_count, ism_count,
          allah_count, rahman_count, rahim_count, out, exit_code, error>>

(***************************************************************************)
(* Bounds of the model.                                                    *)
(***************************************************************************)
\* longest input string of the normalizer's own specification
MaxLen == 4
\* most pieces (words, affixes, separators) in a text given to the matcher
MaxPieces == 3
\* most pieces in a free-form corpus file of the end-to-end specification
MaxCorpusPieces == 2

\* an integer variable that has not been assigned yet (Python: unbound)
None == -1

(***************************************************************************)
(* Character classes.                                                      *)
(***************************************************************************)
\* the range \u0600-\u06FF of the regular expression of line 90
InArabicBlock(c) == c >= 1536 /\ c <= 1791

\* \s of re (str patterns) and the characters str.strip() removes:
\* CPython's Py_UNICODE_ISSPACE
IsSpace(c) ==
    \/ c \in 9..13
    \/ c \in 28..32
    \/ c \in {133, 160, 5760, 8239, 8287, 12288}
    \/ c \in 8192..8202
    \/ c \in 8232..8233

IsDiacritic_from_tatweel(c) ==
    \/ c \in 1600..1618
    \/ c = 1648
    \/ c \in 1750..1773

\* the class [\u064B-\u0652\u0670\u06D6-\u06ED] of line 96
IsDiacritic(c) ==
    \/ c \in 1611..1618
    \/ c = 1648
    \/ c \in 1750..1773

\* str.isalpha() on ASCII, Latin-1 and the Arabic block
IsAlpha(c) ==
    \/ c \in 65..90
    \/ c \in 97..122
    \/ c \in {170, 181, 186}
    \/ c \in 192..214
    \/ c \in 216..246
    \/ c \in 248..255
    \/ c \in 1568..1610
    \/ c \in 1646..1647
    \/ c \in 1649..1747
    \/ c = 1749
    \/ c \in 1765..1766
    \/ c \in 1774..1775
    \/ c \in 1786..1788
    \/ c = 1791

\* \w of re (str patterns): str.isalnum() or the underscore; on ASCII,
\* Latin-1 and the Arabic block that is the letters, the digits (Nd, No)
\* and "_"
IsWord(c) ==
    \/ IsAlpha(c)
    \/ c \in 48..57
    \/ c = 95
    \/ c \in {178, 179, 185, 188, 189, 190}
    \/ c \in 1632..1641
    \/ c \in 1776..1785

(***************************************************************************)
(* Sequence helpers.                                                       *)
(***************************************************************************)
RECURSIVE Flatten(_)
\* the concatenation of a sequence of strings
Flatten(ss) == IF ss = <<>> THEN <<>> ELSE Head(ss) \o Flatten(Tail(ss))

\* the strings over alphabet A of length at most n
Strings(A, n) == UNION {[1..k -> A] : k \in 0..n}

\* the elements of a sequence
Range(s) == {s[i] : i \in 1..Len(s)}

(***************************************************************************)
(* The normalizer: preprocess_text, lines 82-102.                          *)
(***************************************************************************)
IsKeptWhenRemovingNonArabic(c) == InArabicBlock(c) \/ IsSpace(c)

\* re.sub(r"[^\u0600-\u06FF\s]", "", text), line 90
remove_non_arabic(text) == SelectSeq(text, IsKeptWhenRemovingNonArabic)

IsNotDiacritic(c) == ~IsDiacritic(c)

\* diacritics_regex.sub("", text), lines 96-97
strip_diacritics(text) == SelectSeq(text, IsNotDiacritic)

RECURSIVE collapse_whitespace(_)
\* re.sub(r"\s+", " ", text): every maximal run of whitespace becomes one
\* U+0020
collapse_whitespace(text) ==
    IF text = <<>> THEN <<>>
    ELSE IF IsSpace(Head(text))
         THEN IF Len(text) > 1 /\ IsSpace(text[2])
              THEN collapse_whitespace(Tail(text))
              ELSE <<32>> \o collapse_whitespace(Tail(text))
         ELSE <<Head(text)>> \o collapse_whitespace(Tail(text))

RECURSIVE lstrip(_)
lstrip(text) ==
    IF text # <<>> /\ IsSpace(Head(text)) THEN lstrip(Tail(text)) ELSE text

RECURSIVE rstrip(_)
rstrip(text) ==
    IF text # <<>> /\ IsSpace(text[Len(text)])
    THEN rstrip(SubSeq(text, 1, Len(text) - 1))
    ELSE text

\* str.strip()
strip(text) == rstrip(lstrip(text))

normalize_spacing_no_strip(text) == collapse_whitespace(text)

\* re.sub(r"\s+", " ", text).strip(), line 100
normalize_spacing(text) == strip(collapse_whitespace(text))

preprocess_text_spacing_first(text) ==
    LET t0 == normalize_spacing(text)
        t1 == IF REMOVE_NON_ARABIC THEN remove_non_arabic(t0) ELSE t0
    IN  IF STRIP_DIACRITICS THEN strip_diacritics(t1) ELSE t1

\* preprocess_text, lines 82-102; it reads the two module-level flags
preprocess_text(text) ==
    LET t1 == IF REMOVE_NON_ARABIC THEN remove_non_arabic(text) ELSE text
        t2 == IF STRIP_DIACRITICS THEN strip_diacritics(t1) ELSE t1
    IN  normalize_spacing(t2)

(***************************************************************************)
(* The patterns, lines 53-69.  Every pattern of the source has the shape   *)
(* \bLITERAL\b; a pattern is the literal with its two anchors.             *)
(***************************************************************************)
WholeWord(lit) == [lb |-> TRUE, lit |-> lit, rb |-> TRUE]

\* the literals, letter by letter
ISM    == <<1575, 1587, 1605>>
ALLAH  == <<1575, 1604, 1604, 1607>>
RAHMAN == <<1575, 1604, 1585, 1581, 1605, 1606>>
RAHIM  == <<1575, 1604, 1585, 1581, 1610, 1605>>

PATTERN_ISM_unanchored == << [lb |-> FALSE, lit |-> ISM, rb |-> FALSE] >>

PATTERN_ISM == << WholeWord(ISM) >>

ALLAH_PATTERNS_STRICT_unanchored ==
    << [lb |-> FALSE, lit |-> ALLAH, rb |-> FALSE] >>

ALLAH_PATTERNS_STRICT == << WholeWord(ALLAH) >>

ALLAH_PATTERNS_EXPANDED_unanchored ==
    << [lb |-> FALSE, lit |-> ALLAH, rb |-> FALSE],
       WholeWord(ALLAH \o <<1605>>),
       WholeWord(<<1576>> \o ALLAH),
       WholeWord(<<1608>> \o ALLAH),
       WholeWord(<<1601, 1604, 1604, 1607>>),
       WholeWord(<<1578>> \o ALLAH) >>

ALLAH_PATTERNS_EXPANDED ==
    << WholeWord(ALLAH),                        \* standalone
       WholeWord(ALLAH \o <<1605>>),            \* vocative
       WholeWord(<<1576>> \o ALLAH),
       WholeWord(<<1608>> \o ALLAH),
       WholeWord(<<1601, 1604, 1604, 1607>>),
       WholeWord(<<1578>> \o ALLAH) >>

PATTERN_RAHMAN == << WholeWord(RAHMAN) >>
PATTERN_RAHIM  == << WholeWord(RAHIM) >>

(***************************************************************************)
(* The matcher: re.findall and count_occurrences_regex, lines 104-115.     *)
(***************************************************************************)
\* \b of re before position i (1-based; i = Len(text) + 1 is the end):
\* exactly one of the characters before and at i is a word character
word_boundary(text, i) ==
    LET before == i > 1 /\ IsWord(text[i - 1])
        after  == i <= Len(text) /\ IsWord(text[i])
    IN  before # after

\* whether the pattern matches text at position i
match_at(pat, text, i) ==
    /\ i >= 1
    /\ i + Len(pat.lit) - 1 <= Len(text)
    /\ SubSeq(text, i, i + Len(pat.lit) - 1) = pat.lit
    /\ pat.lb => word_boundary(text, i)
    /\ pat.rb => word_boundary(text, i + Len(pat.lit))

RECURSIVE findall_from(_, _, _)
\* the scan of re.findall from position i: leftmost match first, the next
\* search starting where the match ended (the matches do not overlap)
findall_from(pat, text, i) ==
    IF i + Len(pat.lit) - 1 > Len(text) THEN <<>>
    ELSE IF match_at(pat, text, i)
         THEN <<i>> \o findall_from(pat, text, i + Len(pat.lit))
         ELSE findall_from(pat, text, i + 1)

\* re.findall(pat, text), line 110, as the start positions of the matches
findall(pat, text) == findall_from(pat, text, 1)

RECURSIVE count_loop(_, _, _)
\* the loop of lines 109-114 from the k-th pattern on
count_loop(text, patterns, k) ==
    IF k > Len(patterns) THEN 0
    ELSE Len(findall(patterns[k], text)) + count_loop(text, patterns, k + 1)

count_occurrences_regex_counting_patterns(text, patterns) ==
    Len(patterns) + count_loop(text, patterns, 1)

\* count_occurrences_regex, lines 104-115
count_occurrences_regex(text, patterns) == 0 + count_loop(text, patterns, 1)

IntResult(n) == [kind |-> "int", val |-> n]
TupleResult(a, b) == [kind |-> "tuple", strict |-> a, expanded |-> b]

count_allah_swapped(text) ==
    LET strict_count   == count_occurrences_regex(text, ALLAH_PATTERNS_STRICT)
        expanded_count == count_occurrences_regex(text, ALLAH_PATTERNS_EXPANDED)
    IN  IF ALLAH_MODE = "strict" THEN IntResult(expanded_count)
        ELSE IF ALLAH_MODE = "expanded" THEN IntResult(strict_count)
        ELSE TupleResult(strict_count, expanded_count)

\* count_allah, lines 117-133
count_allah(text) ==
    LET strict_count   == count_occurrences_regex(text, ALLAH_PATTERNS_STRICT)
        expanded_count == count_occurrences_regex(text, ALLAH_PATTERNS_EXPANDED)
    IN  IF ALLAH_MODE = "strict" THEN IntResult(strict_count)
        ELSE IF ALLAH_MODE = "expanded" THEN IntResult(expanded_count)
        ELSE TupleResult(strict_count, expanded_count)

\* the literal of line 140
bismillah ==
    <<1576, 1587, 1605, 32>> \o ALLAH \o <<32>> \o RAHMAN \o <<32>> \o RAHIM

\* verify_bismillah_letters, lines 135-144
verify_bismillah_letters ==
    LET processed_bismillah == preprocess_text(bismillah)
    IN  Len(SelectSeq(processed_bismillah, IsAlpha))

(***************************************************************************)
(* The loader: load_text_file, lines 75-80.  open(filename, "r",           *)
(* encoding="utf-8") raises OSError for a missing or unreadable file;      *)
(* f.read() decodes the bytes strictly (errors="strict" is the default)    *)
(* and translates the line endings \r\n and \r to \n (newline=None).       *)
(***************************************************************************)
\* the length of the UTF-8 sequence a lead byte announces, 0 for a byte
\* that cannot start one
utf8_length(b1) ==
    IF b1 < 128 THEN 1
    ELSE IF b1 \in 194..223 THEN 2
    ELSE IF b1 \in 224..239 THEN 3
    ELSE IF b1 \in 240..244 THEN 4
    ELSE 0

\* whether bytes i .. i+n-1 are a well-formed sequence of length n
utf8_well_formed(bytes, i, n) ==
    /\ n > 0
    /\ i + n - 1 <= Len(bytes)
    /\ \A k \in 1..(n - 1) : bytes[i + k] \in 128..191
    /\ bytes[i] = 224 => bytes[i + 1] >= 160
    /\ bytes[i] = 237 => bytes[i + 1] <= 159
    /\ bytes[i] = 240 => bytes[i + 1] >= 144
    /\ bytes[i] = 244 => bytes[i + 1] <= 143

\* the code point of the well-formed sequence of length n at i
utf8_code_point(bytes, i, n) ==
    IF n = 1 THEN bytes[i]
    ELSE IF n = 2 THEN (bytes[i] % 32) * 64 + (bytes[i + 1] % 64)
    ELSE IF n = 3
         THEN (bytes[i] % 16) * 4096 + (bytes[i + 1] % 64) * 64
              + (bytes[i + 2] % 64)
    ELSE (bytes[i] % 8) * 262144 + (bytes[i + 1] % 64) * 4096
         + (bytes[i + 2] % 64) * 64 + (bytes[i + 3] % 64)

\* what the decoder yields in place of the text after an ill-formed
\* sequence; no code point is negative
DecodeError == <<0 - 1>>

\* errors="ignore", which the source does not pass: ill-formed bytes are
\* dropped
utf8_decode_lenient(bytes) ==
    LET dec[i \in 1..(Len(bytes) + 1)] ==
            IF i > Len(bytes) THEN <<>>
            ELSE IF utf8_well_formed(bytes, i, utf8_length(bytes[i]))
                 THEN <<utf8_code_point(bytes, i, utf8_length(bytes[i]))>>
                      \o dec[i + utf8_length(bytes[i])]
                 ELSE dec[i + 1]
    IN  [ok |-> TRUE, text |-> dec[1]]

\* bytes.decode("utf-8"), strict: the text, or ok = FALSE when a sequence
\* is ill-formed (UnicodeDecodeError); dec[i] is the text of bytes i..end
utf8_decode(bytes) ==
    LET dec[i \in 1..(Len(bytes) + 1)] ==
            IF i > Len(bytes) THEN <<>>
            ELSE IF utf8_well_formed(bytes, i, utf8_length(bytes[i]))
                 THEN <<utf8_code_point(bytes, i, utf8_length(bytes[i]))>>
                      \o dec[i + utf8_length(bytes[i])]
                 ELSE DecodeError
        failed(t) == t # <<>> /\ t[Len(t)] < 0
    IN  IF failed(dec[1]) THEN [ok |-> FALSE, text |-> <<>>]
        ELSE [ok |-> TRUE, text |-> dec[1]]

RECURSIVE translate_newlines(_)
\* universal newlines of a text-mode read: \r\n and \r become \n
translate_newlines(text) ==
    IF text = <<>> THEN <<>>
    ELSE IF Head(text) = 13
         THEN IF Len(text) > 1 /\ text[2] = 10
              THEN <<10>> \o translate_newlines(Tail(Tail(text)))
              ELSE <<10>> \o translate_newlines(Tail(text))
         ELSE <<Head(text)>> \o translate_newlines(Tail(text))

\* load_text_file, lines 75-80: the text read, or the exception raised
load_text_file(f) ==
    IF f.status = "missing"
    THEN [error |-> "FileNotFoundError", text |-> <<>>]
    ELSE IF f.status = "unreadable"
    THEN [error |-> "PermissionError", text |-> <<>>]
    ELSE LET d == utf8_decode(f.bytes)
         IN  IF d.ok
             THEN [error |-> "", text |-> translate_newlines(d.text)]
             ELSE [error |-> "UnicodeDecodeError", text |-> <<>>]

(***************************************************************************)
(* The reference numbers of main, lines 181-183.                           *)
(***************************************************************************)
chapters == 114
verses == 6346

RECURSIVE digit_sum(_)
\* sum(map(int, str(n))) for n >= 0
digit_sum(n) == IF n < 10 THEN n ELSE (n % 10) + digit_sum(n \div 10)

cross_sum_verses == digit_sum(verses)

(***************************************************************************)
(* main(), lines 146-193, one action per statement group.  A printed line  *)
(* is <<label>> or <<label, number>>.                                      *)
(***************************************************************************)
\* line 148; an exception of load_text_file is not caught: the interpreter
\* prints the traceback to stderr and exits with code 1
Load ==
    /\ pc = "start"
    /\ LET r == load_text_file(file)
       IN  IF r.error # ""
           THEN /\ pc' = "failed"
                /\ error' = r.error
                /\ exit_code' = 1
                /\ UNCHANGED raw_text
           ELSE /\ pc' = "loaded"
                /\ raw_text' = r.text
                /\ UNCHANGED <<error, exit_code>>
    /\ UNCHANGED <<STRIP_DIACRITICS, REMOVE_NON_ARABIC, ALLAH_MODE, file,
                   prepped_text, reprepped_text, bismillah_letter_count,
                   ism_count, allah_count, rahman_count, rahim_count, out>>

\* line 151
Preprocess ==
    /\ pc = "loaded"
    /\ prepped_text' = preprocess_text(raw_text)
    /\ pc' = "prepped"
    /\ UNCHANGED <<STRIP_DIACRITICS, REMOVE_NON_ARABIC, ALLAH_MODE, file,
                   raw_text, reprepped_text, bismillah_letter_count,
                   ism_count, allah_count, rahman_count, rahim_count, out,
                   exit_code, error>>

\* lines 154-155
VerifyBismillah ==
    /\ pc = "prepped"
    /\ bismillah_letter_count' = verify_bismillah_letters
    /\ out' = Append(out, <<"Bismillah letter count (should be 19)",
                            verify_bismillah_letters>>)
    /\ pc' = "verified"
    /\ UNCHANGED <<STRIP_DIACRITICS, REMOVE_NON_ARABIC, ALLAH_MODE, file,
                   raw_text, prepped_text, reprepped_text, ism_count,
                   allah_count, rahman_count, rahim_count, exit_code, error>>

\* line 158
CountIsm ==
    /\ pc = "verified"
    /\ ism_count' = count_occurrences_regex(prepped_text, PATTERN_ISM)
    /\ pc' = "ism"
    /\ UNCHANGED <<STRIP_DIACRITICS, REMOVE_NON_ARABIC, ALLAH_MODE, file,
                   raw_text, prepped_text, reprepped_text,
                   bismillah_letter_count, allah_count, rahman_count,
                   rahim_count, out, exit_code, error>>

\* line 159
CountAllah ==
    /\ pc = "ism"
    /\ allah_count' = count_allah(prepped_text)
    /\ pc' = "allah"
    /\ UNCHANGED <<STRIP_DIACRITICS, REMOVE_NON_ARABIC, ALLAH_MODE, file,
                   raw_text, prepped_text, reprepped_text,
                   bismillah_letter_count, ism_count, rahman_count,
                   rahim_count, out, exit_code, error>>

\* line 160
CountRahman ==
    /\ pc = "allah"
    /\ rahman_count' = count_occurrences_regex(prepped_text, PATTERN_RAHMAN)
    /\ pc' = "rahman"
    /\ UNCHANGED <<STRIP_DIACRITICS, REMOVE_NON_ARABIC, ALLAH_MODE, file,
                   raw_text, prepped_text, reprepped_text,
                   bismillah_letter_count, ism_count, allah_count,
                   rahim_count, out, exit_code, error>>

\* line 161
CountRahim ==
    /\ pc = "rahman"
    /\ rahim_count' = count_occurrences_regex(prepped_text, PATTERN_RAHIM)
    /\ pc' = "counted"
    /\ UNCHANGED <<STRIP_DIACRITICS, REMOVE_NON_ARABIC, ALLAH_MODE, file,
                   raw_text, prepped_text, reprepped_text,
                   bismillah_letter_count, ism_count, allah_count,
                   rahman_count, out, exit_code, error>>

\* lines 165-170: isinstance(allah_count, tuple) chooses two lines or one
allah_lines(count) ==
    IF count.kind = "tuple"
    THEN << <<"Allah [Strict]", count.strict>>,
            <<"Allah [Expanded]", count.expanded>> >>
    ELSE << <<"Allah", count.val>> >>

\* lines 163-173
PrintCounts ==
    /\ pc = "counted"
    /\ out' = out \o << <<"--- WORD COUNTS ---">>, <<"Ism", ism_count>> >>
                  \o allah_lines(allah_count)
                  \o << <<"Rahman", rahman_count>>, <<"Rahim", rahim_count>> >>
    /\ pc' = "printed"
    /\ UNCHANGED <<STRIP_DIACRITICS, REMOVE_NON_ARABIC, ALLAH_MODE, file,
                   raw_text, prepped_text, reprepped_text,
                   bismillah_letter_count, ism_count, allah_count,
                   rahman_count, rahim_count, exit_code, error>>

\* lines 185-193
reference_section ==
    << <<"--- KNOWN BULLET DATA ---">>,
       <<"Chapters", chapters>>,
       <<"Total Verses (with Bismillah)", verses>>,
       <<"Cross-sum of 6346", cross_sum_verses>>,
       <<"Bismillah Count: 114">>,
       <<"Missing Bismillah in Chapter 9, extra in 27 => 19 chapters apart">>,
       <<"Surah 27:30 => 27 + 30 = 57">>,
       <<"Analysis complete.">> >>

\* lines 181-193, and the return of main: the process exits with code 0
PrintReference ==
    /\ pc = "printed"
    /\ out' = out \o reference_section
    /\ pc' = "done"
    /\ exit_code' = 0
    /\ UNCHANGED <<STRIP_DIACRITICS, REMOVE_NON_ARABIC, ALLAH_MODE, file,
                   raw_text, prepped_text, reprepped_text,
                   bismillah_letter_count, ism_count, allah_count,
                   rahman_count, rahim_count, error>>

(***************************************************************************)
(* preprocess_text as a function of its own: applied once, then to its     *)
(* own result.                                                             *)
(***************************************************************************)
NormOnce ==
    /\ pc = "norm_call"
    /\ prepped_text' = preprocess_text(raw_text)
    /\ pc' = "norm_once"
    /\ UNCHANGED <<STRIP_DIACRITICS, REMOVE_NON_ARABIC, ALLAH_MODE, file,
                   raw_text, reprepped_text, bismillah_letter_count,
                   ism_count, allah_count, rahman_count, rahim_count, out,
                   exit_code, error>>

NormTwice ==
    /\ pc = "norm_once"
    /\ reprepped_text' = preprocess_text(prepped_text)
    /\ pc' = "norm_twice"
    /\ UNCHANGED <<STRIP_DIACRITICS, REMOVE_NON_ARABIC, ALLAH_MODE, file,
                   raw_text, prepped_text, bismillah_letter_count,
                   ism_count, allah_count, rahman_count, rahim_count, out,
                   exit_code, error>>

(***************************************************************************)
(* Inputs.                                                                 *)
(***************************************************************************)
\* one character of each class the normalizer tells apart: an Arabic
\* letter, a stripped diacritic (fatha), an Arabic combining mark outside
\* the stripped class (maddah above), space, line feed, a Latin letter
NormAlphabet == {1575, 1614, 1619, 32, 10, 97}

\* the texts made of at most n pieces of P
PieceTexts(P, n) == {Flatten(ps) : ps \in Strings(P, n)}

\* the target words, the letters and the word the expanded variants are
\* made of (beh, waw, feh, teh, meem, "lillah"), and one separator of each
\* kind: space, Arabic-Indic digit three, Arabic comma, inverted damma
\* (a mark outside the stripped class), fatha, Latin "a"
MatchPieces ==
    {ISM, ALLAH, RAHMAN, RAHIM, <<1604, 1604, 1607>>,
     <<1576>>, <<1608>>, <<1601>>, <<1578>>, <<1605>>,
     <<32>>, <<1635>>, <<1548>>, <<1623>>, <<1614>>, <<97>>}

\* two longer texts: the invocation phrase, and a line holding the
\* standalone word and each of the five expanded variants once
SampleTexts ==
    {bismillah,
     ALLAH \o <<32>> \o ALLAH \o <<1605, 32, 1576>> \o ALLAH
           \o <<32, 1608>> \o ALLAH \o <<32, 1601, 1604, 1604, 1607, 32, 1578>>
           \o ALLAH}

CorpusPieces ==
    {ISM, ALLAH, RAHMAN, RAHIM, <<1576>>, <<1605>>,
     <<32>>, <<13, 10>>, <<1614>>, <<1623>>, <<1635>>, <<97>>}

\* affixes of the longer words of the end-to-end scenario
Prefixes == {<<>>, <<1576>>, <<1608>>, <<1601>>, <<1578>>}
Suffixes == {<<>>, <<1605>>, <<1575>>}

RECURSIVE Vowelled(_)
\* the word with a fatha after every letter
Vowelled(w) ==
    IF w = <<>> THEN <<>> ELSE <<Head(w), 1614>> \o Vowelled(Tail(w))

\* a corpus with one isolated instance of every target word (vowelled or
\* bare) and one longer word around every target word
Scenario(pa, sa, po, so, vowels) ==
    LET W(w) == IF vowels THEN Vowelled(w) ELSE w
    IN  W(ISM) \o <<32>> \o W(ALLAH) \o <<10>> \o W(RAHMAN) \o <<32>>
        \o W(RAHIM) \o <<10>>
        \o po \o ISM \o so \o <<32>> \o pa \o ALLAH \o sa \o <<32>>
        \o po \o RAHMAN \o so \o <<10>> \o po \o RAHIM \o so \o <<10>>

ScenarioCorpora ==
    {Scenario(a[1], a[2], a[3], a[4], a[5]) :
        a \in {x \in Prefixes \X Suffixes \X Prefixes \X Suffixes \X BOOLEAN :
                  x[1] \o x[2] # <<>> /\ x[3] \o x[4] # <<>>}}

RECURSIVE utf8_encode(_)
\* the UTF-8 bytes of a text of code points below U+10000 (no surrogates)
utf8_encode(text) ==
    IF text = <<>> THEN <<>>
    ELSE LET c == Head(text)
         IN  (IF c < 128 THEN <<c>>
              ELSE IF c < 2048
                   THEN <<192 + (c \div 64), 128 + (c % 64)>>
              ELSE <<224 + (c \div 4096), 128 + ((c \div 64) % 64),
                     128 + (c % 64)>>)
             \o utf8_encode(Tail(text))

\* a file's bytes: the encoding intact, with a byte that no UTF-8 sequence
\* holds appended, or with the last byte of a final multi-byte character
\* cut off
Damaged(bytes, damage) ==
    IF damage = "invalid_byte" THEN Append(bytes, 255)
    ELSE IF damage = "truncated" THEN SubSeq(bytes, 1, Len(bytes) - 1)
    ELSE bytes

NoFile == [status |-> "present", bytes |-> <<>>, malformed |-> FALSE]

Unassigned ==
    /\ prepped_text = <<>>
    /\ reprepped_text = <<>>
    /\ bismillah_letter_count = None
    /\ ism_count = None
    /\ allah_count = [kind |-> "none"]
    /\ rahman_count = None
    /\ rahim_count = None
    /\ out = <<>>
    /\ exit_code = None
    /\ error = ""

(***************************************************************************)
(* The specifications.                                                     *)
(***************************************************************************)
\* the program: any configuration, and a corpus file that is missing,
\* unreadable, malformed or well-formed
Init ==
    /\ pc = "start"
    /\ STRIP_DIACRITICS \in BOOLEAN
    /\ REMOVE_NON_ARABIC \in BOOLEAN
    /\ ALLAH_MODE \in {"strict", "expanded", "both"}
    /\ \/ file \in {[status |-> st, bytes |-> <<>>, malformed |-> FALSE] :
                        st \in {"missing", "unreadable"}}
       \/ \E text \in PieceTexts(CorpusPieces, MaxCorpusPieces) :
          \E damage \in {"none", "invalid_byte", "truncated"} :
             /\ damage = "truncated" =>
                    text # <<>> /\ text[Len(text)] >= 128
             /\ file = [status |-> "present",
                        bytes |-> Damaged(utf8_encode(text), damage),
                        malformed |-> damage # "none"]
       \/ \E text \in ScenarioCorpora :
             file = [status |-> "present", bytes |-> utf8_encode(text),
                     malformed |-> FALSE]
    /\ raw_text = <<>>
    /\ Unassigned

Next ==
    \/ Load
    \/ Preprocess
    \/ VerifyBismillah
    \/ CountIsm
    \/ CountAllah
    \/ CountRahman
    \/ CountRahim
    \/ PrintCounts
    \/ PrintReference

Spec == Init /\ [][Next]_vars

\* the normalizer alone: any input string, any setting of the two flags
InitNorm ==
    /\ pc = "norm_call"
    /\ STRIP_DIACRITICS \in BOOLEAN
    /\ REMOVE_NON_ARABIC \in BOOLEAN
    /\ ALLAH_MODE = "both"
    /\ file = NoFile
    /\ raw_text \in Strings(NormAlphabet, MaxLen)
    /\ Unassigned

NextNorm == NormOnce \/ NormTwice

SpecNorm == InitNorm /\ [][NextNorm]_vars

\* the matcher on normalized text: the configuration of the source, the
\* text normalized by preprocess_text and counted as main counts it
InitMatch ==
    /\ pc = "loaded"
    /\ STRIP_DIACRITICS = TRUE
    /\ REMOVE_NON_ARABIC = TRUE
    /\ ALLAH_MODE = "both"
    /\ file = NoFile
    /\ raw_text \in PieceTexts(MatchPieces, MaxPieces) \cup SampleTexts
    /\ Unassigned

NextMatch ==
    \/ Preprocess
    \/ VerifyBismillah
    \/ CountIsm
    \/ CountAllah
    \/ CountRahman
    \/ CountRahim

SpecMatch == InitMatch /\ [][NextMatch]_vars

(***************************************************************************)
(* Vocabulary of the properties.                                           *)
(***************************************************************************)
\* the configuration of the source: both flags true
Default == STRIP_DIACRITICS /\ REMOVE_NON_ARABIC

\* the combining marks (general category Mn) of the Arabic block: the
\* vowel signs and other marks laid over a base letter
IsArabicCombiningMark(c) ==
    \/ c \in 1552..1562
    \/ c \in 1611..1631
    \/ c = 1648
    \/ c \in 1750..1756
    \/ c \in 1759..1764
    \/ c \in 1767..1768
    \/ c \in 1770..1773

\* position i of text holds one U+0020 between two non-whitespace
\* characters
SeparatingSpace(text, i) ==
    /\ text[i] = 32
    /\ i > 1 /\ ~IsSpace(text[i - 1])
    /\ i < Len(text) /\ ~IsSpace(text[i + 1])

\* no whitespace at either end and no two whitespace characters in a row
SpacingNormal(text) ==
    /\ text # <<>> => ~IsSpace(text[1]) /\ ~IsSpace(text[Len(text)])
    /\ \A i \in 1..(Len(text) - 1) : ~(IsSpace(text[i]) /\ IsSpace(text[i + 1]))

\* the word w stands at position i of text
Occurs(text, w, i) ==
    /\ i >= 1
    /\ i + Len(w) - 1 <= Len(text)
    /\ SubSeq(text, i, i + Len(w) - 1) = w

Occurrences(text, w) == {i \in 1..Len(text) : Occurs(text, w, i)}

\* the occurrence at i is part of a longer word: a letter directly before
\* or directly after it
Embedded(text, w, i) ==
    \/ i > 1 /\ IsAlpha(text[i - 1])
    \/ i + Len(w) <= Len(text) /\ IsAlpha(text[i + Len(w)])

\* the occurrence at i has a non-letter or a string edge on both sides
LetterBounded(text, w, i) == ~Embedded(text, w, i)

\* the occurrence at i has whitespace or a string edge on both sides
Isolated(text, w, i) ==
    /\ i = 1 \/ IsSpace(text[i - 1])
    /\ i + Len(w) > Len(text) \/ IsSpace(text[i + Len(w)])

\* the four single-pattern targets: word, pattern list, count of main
Targets ==
    { [word |-> ISM,    patterns |-> PATTERN_ISM,           count |-> ism_count],
      [word |-> ALLAH,  patterns |-> ALLAH_PATTERNS_STRICT,
       count |-> IF allah_count.kind = "tuple" THEN allah_count.strict
                 ELSE count_occurrences_regex(prepped_text, ALLAH_PATTERNS_STRICT)],
      [word |-> RAHMAN, patterns |-> PATTERN_RAHMAN,        count |-> rahman_count],
      [word |-> RAHIM,  patterns |-> PATTERN_RAHIM,         count |-> rahim_count] }

\* the matches of a pattern in the normalized text, as (first, last)
Spans(pat) ==
    {<<i, i + Len(pat.lit) - 1>> : i \in Range(findall(pat, prepped_text))}

Overlap(s, t) == s[1] <= t[2] /\ t[1] <= s[2]

(***************************************************************************)
(* The normalizer (SpecNorm).                                              *)
(***************************************************************************)
\* C1: preprocess_text is idempotent: for every input string and every
\* setting of the two flags, normalizing the normalized string changes
\* nothing.
C1_Idempotent == pc = "norm_twice" => reprepped_text = prepped_text

\* C1's case: an input the normalizer changed, normalized a second time
C1_Witness ==
    /\ pc = "norm_twice"
    /\ prepped_text # <<>>
    /\ prepped_text # raw_text
    /\ 32 \in Range(prepped_text)

\* C2 as stated: under the default configuration the output is no longer
\* than the input, each of its characters is a single separating space or
\* an Arabic-block character that is not a diacritic (a combining mark),
\* and it has no leading, trailing or doubled whitespace.
C2_Original ==
    (pc = "norm_once" /\ Default) =>
        /\ Len(prepped_text) <= Len(raw_text)
        /\ \A i \in 1..Len(prepped_text) :
              \/ SeparatingSpace(prepped_text, i)
              \/ /\ InArabicBlock(prepped_text[i])
                 /\ ~IsArabicCombiningMark(prepped_text[i])
        /\ SpacingNormal(prepped_text)

\* C2 amended: the same, with "diacritic" narrowed to the class the code
\* strips, U+064B-U+0652, U+0670 and U+06D6-U+06ED; the other combining
\* marks of the Arabic block stay in the output.
C2_Amended ==
    (pc = "norm_once" /\ Default) =>
        /\ Len(prepped_text) <= Len(raw_text)
        /\ \A i \in 1..Len(prepped_text) :
              \/ SeparatingSpace(prepped_text, i)
              \/ /\ InArabicBlock(prepped_text[i])
                 /\ ~IsDiacritic(prepped_text[i])
        /\ SpacingNormal(prepped_text)

\* C2's case: a shortened output that keeps a separating space and a
\* combining mark outside the stripped class
C2_Witness ==
    /\ pc = "norm_once"
    /\ Default
    /\ Len(prepped_text) < Len(raw_text)
    /\ 32 \in Range(prepped_text)
    /\ \E i \in 1..Len(prepped_text) :
          IsArabicCombiningMark(prepped_text[i])

(***************************************************************************)
(* The matcher on normalized text (SpecMatch).                             *)
(***************************************************************************)
\* C3: boundary soundness: for each target (Ism, Allah strict, Rahman,
\* Rahim) no match of its pattern is an occurrence inside a longer word (a
\* letter directly before or after it), the count is at most the number
\* of occurrences that are not inside a longer word, and a text whose
\* occurrences are all inside longer words counts 0.
C3_BoundarySound ==
    pc = "counted" =>
        \A t \in Targets :
            /\ \A k \in 1..Len(t.patterns) :
                  \A i \in Range(findall(t.patterns[k], prepped_text)) :
                      ~Embedded(prepped_text, t.word, i)
            /\ t.count <= Cardinality({i \in Occurrences(prepped_text, t.word) :
                                          ~Embedded(prepped_text, t.word, i)})
            /\ (\A i \in Occurrences(prepped_text, t.word) :
                    Embedded(prepped_text, t.word, i)) => t.count = 0

\* C3's case: the word occurs, only inside longer words, and counts 0
C3_Witness ==
    /\ pc = "counted"
    /\ Cardinality(Occurrences(prepped_text, ALLAH)) >= 1
    /\ Cardinality(Occurrences(prepped_text, ISM)) >= 1
    /\ \A i \in Occurrences(prepped_text, ALLAH) :
          Embedded(prepped_text, ALLAH, i)
    /\ \A i \in Occurrences(prepped_text, ISM) :
          Embedded(prepped_text, ISM, i)
    /\ allah_count.strict = 0
    /\ ism_count = 0

\* C4 as stated: boundary completeness: for each single-pattern target the
\* count is the number of occurrences bounded on both sides by a
\* non-letter character (space, punctuation, digit, mark) or a string
\* edge.
C4_BoundaryComplete ==
    pc = "counted" =>
        \A t \in Targets :
            t.count = Cardinality({i \in Occurrences(prepped_text, t.word) :
                                      LetterBounded(prepped_text, t.word, i)})

\* C10: the expanded Allah total is at least the strict total, the
\* matches of the six expanded patterns are pairwise disjoint, so the
\* expanded total is the number of distinct matches, and it exceeds the
\* strict total by the number of matches of the five variants.
C10_ExpandedDisjoint ==
    pc = "counted" =>
        LET E == ALLAH_PATTERNS_EXPANDED
        IN  /\ allah_count.expanded >= allah_count.strict
            /\ \A j \in 1..Len(E) : \A k \in 1..Len(E) :
                  j # k => \A s \in Spans(E[j]) : \A t \in Spans(E[k]) :
                              ~Overlap(s, t)
            /\ allah_count.expanded
                  = Cardinality(UNION {Spans(E[j]) : j \in 1..Len(E)})
            /\ allah_count.expanded
                  = allah_count.strict
                    + Cardinality(UNION {Spans(E[j]) : j \in 2..Len(E)})

\* C10's case: the standalone word and every one of the five variants
\* matched in one text
C10_Witness ==
    /\ pc = "counted"
    /\ allah_count.strict = 1
    /\ allah_count.expanded = 6
    /\ \A j \in 1..Len(ALLAH_PATTERNS_EXPANDED) :
          Spans(ALLAH_PATTERNS_EXPANDED[j]) # {}

(***************************************************************************)
(* The program end to end (Spec).                                          *)
(***************************************************************************)
\* the labels of the printed lines, in order
Labels(o) == [i \in 1..Len(o) |-> o[i][1]]

\* the printed lines that report a count of the corpus
CountLabels == {"Ism", "Allah", "Allah [Strict]", "Allah [Expanded]",
                "Rahman", "Rahim"}

CountLines == {i \in 1..Len(out) : out[i][1] \in CountLabels}

\* the lines that carry the label
LinesOf(label) == {i \in 1..Len(out) : out[i][1] = label}

\* the lines that report the strict Allah count, and the expanded one
StrictLines ==
    LinesOf("Allah [Strict]")
        \cup (IF ALLAH_MODE = "strict" THEN LinesOf("Allah") ELSE {})

ExpandedLines ==
    LinesOf("Allah [Expanded]")
        \cup (IF ALLAH_MODE = "expanded" THEN LinesOf("Allah") ELSE {})

\* the end-to-end scenario, read on the normalized corpus: each target
\* word occurs exactly twice, once isolated (whitespace or a string edge
\* on both sides) and once inside a longer word
ScenarioCorpus(text) ==
    \A w \in {ISM, ALLAH, RAHMAN, RAHIM} :
        /\ Cardinality(Occurrences(text, w)) = 2
        /\ Cardinality({i \in Occurrences(text, w) : Isolated(text, w, i)}) = 1
        /\ Cardinality({i \in Occurrences(text, w) : Embedded(text, w, i)}) = 1

\* the five prefixed or suffixed variants of the expanded list
Variants == {ALLAH_PATTERNS_EXPANDED[j].lit :
                j \in 2..Len(ALLAH_PATTERNS_EXPANDED)}

\* the occurrences of a variant that stand as a word of their own: no
\* letter and no digit directly before or after
VariantWords(text) ==
    {<<v, i>> \in Variants \X (1..Len(text)) :
        /\ Occurs(text, v, i)
        /\ ~(i > 1 /\ IsWord(text[i - 1]))
        /\ ~(i + Len(v) <= Len(text) /\ IsWord(text[i + Len(v)]))}

\* C5 as stated: for a corpus with one isolated and one embedded instance
\* of each target word, every reported count is exactly 1.
C5_Original ==
    (pc = "done" /\ ScenarioCorpus(prepped_text)) =>
        \A i \in CountLines : out[i][2] = 1

\* C5 amended: for such a corpus the reported Ism, Allah strict, Rahman
\* and Rahim counts are exactly 1; the reported Allah expanded count is 1
\* plus the number of whole-word occurrences of the five expanded
\* variants, so 2 when the longer word around Allah is itself a variant.
C5_Amended ==
    (pc = "done" /\ ScenarioCorpus(prepped_text)) =>
        /\ \A i \in CountLines \ ExpandedLines : out[i][2] = 1
        /\ \A i \in ExpandedLines :
              out[i][2] = 1 + Cardinality(VariantWords(prepped_text))
        /\ LinesOf("Ism") # {} /\ LinesOf("Rahman") # {} /\ LinesOf("Rahim") # {}
        /\ StrictLines \cup ExpandedLines # {}

\* C5's case: the scenario with a variant as the longer word, both Allah
\* counts reported, the corpus changed by normalization
C5_Witness ==
    /\ pc = "done"
    /\ ScenarioCorpus(prepped_text)
    /\ prepped_text # raw_text
    /\ StrictLines # {} /\ ExpandedLines # {}
    /\ \A i \in StrictLines : out[i][2] = 1
    /\ \A i \in ExpandedLines : out[i][2] = 2

\* the run has ended
Terminated == pc \in {"done", "failed"}

\* C6 as stated: the program fails (non-zero exit) exactly when the input
\* file is missing or unreadable; every other file, one with malformed
\* encoding included, ends with exit code 0 and the counts printed.
C6_Original ==
    /\ Terminated => (exit_code # 0 <=> file.status # "present")
    /\ (Terminated /\ file.status = "present") =>
          pc = "done" /\ CountLines # {}

\* the positions of main from which its next statement runs: the action
\* of each has no other condition
Running == {"start", "loaded", "prepped", "verified", "ism", "allah",
            "rahman", "counted", "printed"}

\* C6 amended: the program fails exactly when the input file is missing,
\* unreadable or not valid UTF-8 (the decoding error is not caught
\* either); an empty file or one without matches ends with exit code 0,
\* the counts printed; a run that has not ended has a next statement.
C6_Amended ==
    /\ Terminated =>
          (exit_code # 0 <=> (file.status # "present" \/ file.malformed))
    /\ pc = "failed" =>
          /\ exit_code = 1
          /\ out = <<>>
          /\ error = (IF file.status = "missing" THEN "FileNotFoundError"
                      ELSE IF file.status = "unreadable" THEN "PermissionError"
                      ELSE "UnicodeDecodeError")
    /\ pc = "done" =>
          /\ exit_code = 0
          /\ error = ""
          /\ CountLines # {}
          /\ \A i \in CountLines : out[i][2] >= 0
    /\ ~Terminated => exit_code = None /\ error = "" /\ pc \in Running

\* C6's case: a malformed file ended the run with the decoding error
C6_Witness ==
    /\ pc = "failed"
    /\ file.status = "present"
    /\ file.malformed
    /\ error = "UnicodeDecodeError"
    /\ exit_code = 1

\* the labels of the fixed reference section
ReferenceLabels == Labels(reference_section)

\* C7: on an empty corpus file main runs to its end without error: the
\* normalized text is empty, every count is 0 and the reference section
\* is printed after the counts; and no count is ever negative.
C7_EmptyCorpus ==
    /\ (pc = "done" /\ file.bytes = <<>>) =>
          /\ raw_text = <<>>
          /\ prepped_text = <<>>
          /\ error = "" /\ exit_code = 0
          /\ ism_count = 0 /\ rahman_count = 0 /\ rahim_count = 0
          /\ allah_count \in {IntResult(0), TupleResult(0, 0)}
          /\ CountLines # {}
          /\ \A i \in CountLines : out[i][2] = 0
          /\ Len(out) >= Len(ReferenceLabels)
          /\ SubSeq(Labels(out), Len(out) - Len(ReferenceLabels) + 1, Len(out))
                = ReferenceLabels
          /\ \A i \in CountLines : i <= Len(out) - Len(ReferenceLabels)
          /\ \A i \in LinesOf("Chapters") : out[i][2] = chapters
          /\ \A i \in LinesOf("Total Verses (with Bismillah)") : out[i][2] = verses
          /\ \A i \in LinesOf("Cross-sum of 6346") : out[i][2] = cross_sum_verses
    /\ pc \in {"ism", "allah", "rahman", "counted", "printed", "done"} =>
          ism_count >= 0
    /\ pc \in {"allah", "rahman", "counted", "printed", "done"} =>
          IF allah_count.kind = "tuple"
          THEN allah_count.strict >= 0 /\ allah_count.expanded >= 0
          ELSE allah_count.val >= 0
    /\ pc \in {"rahman", "counted", "printed", "done"} => rahman_count >= 0
    /\ pc \in {"counted", "printed", "done"} => rahim_count >= 0

\* C7's case: the run on the empty file has ended
C7_Witness ==
    /\ pc = "done"
    /\ file.status = "present"
    /\ file.bytes = <<>>
    /\ Len(out) > Len(ReferenceLabels)

\* C8: under the default settings verify_bismillah_letters returns 19:
\* normalizing the invocation phrase removes none of its letters, and it
\* has 19 alphabetic characters.
C8_Bismillah19 ==
    (Default /\ pc \in {"verified", "ism", "allah", "rahman", "counted",
                        "printed", "done"}) =>
        /\ bismillah_letter_count = 19
        /\ preprocess_text(bismillah) = bismillah
        /\ \A i \in LinesOf("Bismillah letter count (should be 19)") :
              out[i][2] = 19

\* C8's case: the self-check has run under the default settings
C8_Witness ==
    /\ Default
    /\ pc = "verified"
    /\ bismillah_letter_count # None
    /\ LinesOf("Bismillah letter count (should be 19)") # {}

\* C9: count_allah computes both totals over the same text and returns
\* the strict total for "strict", the expanded total for "expanded" and
\* the pair for "both"; main prints two Allah lines exactly when a pair
\* was returned and one line otherwise.
C9_AllahMode ==
    LET strict   == count_occurrences_regex(prepped_text, ALLAH_PATTERNS_STRICT)
        expanded == count_occurrences_regex(prepped_text, ALLAH_PATTERNS_EXPANDED)
        AllahLines == LinesOf("Allah") \cup LinesOf("Allah [Strict]")
                          \cup LinesOf("Allah [Expanded]")
    IN  /\ pc \in {"allah", "rahman", "counted", "printed", "done"} =>
              /\ ALLAH_MODE = "strict" => allah_count = IntResult(strict)
              /\ ALLAH_MODE = "expanded" => allah_count = IntResult(expanded)
              /\ ALLAH_MODE = "both" => allah_count = TupleResult(strict, expanded)
        /\ pc \in {"printed", "done"} =>
              /\ Cardinality(AllahLines) = 2 <=> allah_count.kind = "tuple"
              /\ Cardinality(AllahLines) = 1 <=> allah_count.kind = "int"
              /\ allah_count.kind = "tuple" =>
                    /\ \A i \in LinesOf("Allah [Strict]") : out[i][2] = strict
                    /\ \A i \in LinesOf("Allah [Expanded]") : out[i][2] = expanded
                    /\ LinesOf("Allah") = {}
              /\ allah_count.kind = "int" =>
                    /\ \A i \in LinesOf("Allah") : out[i][2] = allah_count.val
                    /\ LinesOf("Allah") # {}

\* C9's case: the strict total returned alone where the two totals differ
C9_Witness ==
    /\ pc = "done"
    /\ ALLAH_MODE = "strict"
    /\ allah_count = IntResult(1)
    /\ count_occurrences_regex(prepped_text, ALLAH_PATTERNS_EXPANDED) = 2

====
